---- MODULE Spec2Model ----
(***************************************************************************)
(* A model of valijson's JSON graph: GraphNode / Graph (graph.hpp), the    *)
(* reference-resolving GraphParser (graph_parser.hpp) and the read-only    *)
(* JsonGraphAdapter view (graph_adapter.hpp).                              *)
(*                                                                         *)
(* Strings are sequences of one-character strings, so that building a      *)
(* canonical path (path + "/" + key), printing an array index and          *)
(* splitting a JSON Pointer are computed, not assumed.                     *)
(***************************************************************************)
EXTENDS Integers, Sequences, FiniteSets, TLC

----------------------------------------------------------------------------
(* Strings                                                                 *)

\* Byte value of a character: the order std::map<std::string, ...> sorts by.
Code(c) ==
    CASE c = "#" -> 35
      [] c = "$" -> 36
      [] c = "/" -> 47
      [] c = "0" -> 48
      [] c = "1" -> 49
      [] c = "2" -> 50
      [] c = "3" -> 51
      [] c = "4" -> 52
      [] c = "5" -> 53
      [] c = "6" -> 54
      [] c = "7" -> 55
      [] c = "8" -> 56
      [] c = "9" -> 57
      [] c = "a" -> 97
      [] c = "b" -> 98
      [] c = "c" -> 99
      [] c = "e" -> 101
      [] c = "f" -> 102
      [] c = "r" -> 114
      [] c = "s" -> 115
      [] OTHER -> 120

\* std::less<std::string>: lexicographic order on bytes.
RECURSIVE StrLess(_, _)
StrLess(s, t) ==
    IF t = <<>> THEN FALSE
    ELSE IF s = <<>> THEN TRUE
    ELSE IF Code(Head(s)) # Code(Head(t)) THEN Code(Head(s)) < Code(Head(t))
    ELSE StrLess(Tail(s), Tail(t))

Digit(n) == <<"0", "1", "2", "3", "4", "5", "6", "7", "8", "9">>[n + 1]

\* boost::lexical_cast<std::string>(unsigned int): decimal, no padding.
RECURSIVE lexical_cast_string(_)
lexical_cast_string(n) ==
    IF n < 10 THEN <<Digit(n)>>
    ELSE lexical_cast_string(n \div 10) \o <<Digit(n % 10)>>

IsDigit(c) == Code(c) >= 48 /\ Code(c) <= 57

\* boost::lexical_cast<uint64_t>(token): -1 stands for bad_lexical_cast.
RECURSIVE lexical_cast_uint(_, _)
lexical_cast_uint(tok, acc) ==
    IF tok = <<>> THEN acc
    ELSE IF ~IsDigit(Head(tok)) THEN -1
    ELSE lexical_cast_uint(Tail(tok), 10 * acc + (Code(Head(tok)) - 48))

\* Index of the first occurrence of c in s, or 0.
RECURSIVE FindChar(_, _, _)
FindChar(s, c, i) ==
    IF i > Len(s) THEN 0
    ELSE IF s[i] = c THEN i
    ELSE FindChar(s, c, i + 1)

RefKey == <<"$", "r", "e", "f">>

----------------------------------------------------------------------------
(* The source document, as the generic adapter interface presents it       *)

DNull == [k |-> "null", v |-> <<>>]
DBool(b) == [k |-> "bool", v |-> b]
DInt(i) == [k |-> "integer", v |-> i]
DDouble(d) == [k |-> "double", v |-> d]
DStr(s) == [k |-> "string", v |-> s]
DArr(elems) == [k |-> "array", v |-> elems]
\* members: a sequence of <<key, value>> pairs in document order
DObj(members) == [k |-> "object", v |-> members]

\* The document node at a position (a sequence of 1-based child indexes).
RECURSIVE At(_, _)
At(d, pos) ==
    IF pos = <<>> THEN d
    ELSE IF d.k = "object" THEN At(d.v[Head(pos)][2], Tail(pos))
    ELSE At(d.v[Head(pos)], Tail(pos))

\* Object::find(name): index of the first member so named, or 0.
RECURSIVE FindMember(_, _, _)
FindMember(members, name, i) ==
    IF i > Len(members) THEN 0
    ELSE IF members[i][1] = name THEN i
    ELSE FindMember(members, name, i + 1)

\* GraphParser::parseJsonReference: the $ref string of a JSON Reference
\* object, "none" for any other node, "throw" when $ref is not a string.
parseJsonReference(node) ==
    IF node.k = "object" /\ FindMember(node.v, RefKey, 1) # 0
    THEN LET m == node.v[FindMember(node.v, RefKey, 1)][2]
         IN  IF m.k = "string"
             THEN [st |-> "ok", v |-> m.v]
             ELSE [st |-> "throw", v |-> "MalformedReference"]
    ELSE [st |-> "none", v |-> <<>>]

\* internal::json_reference::getJsonReferencePointer: the fragment after the
\* first '#', or the empty pointer when there is none.
getJsonReferencePointer(jsonRef) ==
    LET off == FindChar(jsonRef, "#", 1)
    IN  IF off # 0 /\ Len(jsonRef) > off
        THEN SubSeq(jsonRef, off + 1, Len(jsonRef))
        ELSE <<>>

\* The first reference token of a pointer that starts with '/'.
NextToken(ptr) ==
    LET rest == Tail(ptr)
        cut == FindChar(rest, "/", 1)
    IN  IF cut = 0 THEN rest ELSE SubSeq(rest, 1, cut - 1)

AfterToken(ptr) ==
    LET rest == Tail(ptr)
        cut == FindChar(rest, "/", 1)
    IN  IF cut = 0 THEN <<>> ELSE SubSeq(rest, cut, Len(rest))

\* internal::json_pointer::resolveJsonPointer(node, pointer): the position of
\* the node the pointer addresses, counted from the node at `pos`; fails when
\* a segment names no member, is no index of the array, or meets a scalar.
RECURSIVE resolveJsonPointer(_, _, _)
resolveJsonPointer(d, pos, ptr) ==
    IF ptr = <<>> THEN [ok |-> TRUE, pos |-> pos]
    ELSE IF Head(ptr) # "/" THEN [ok |-> FALSE, pos |-> <<>>]
    ELSE LET node == At(d, pos)
             tok == NextToken(ptr)
         IN  IF node.k = "array"
             THEN LET index == lexical_cast_uint(tok, 0)
                  IN  IF tok = <<>> \/ index < 0 \/ index >= Len(node.v)
                      THEN [ok |-> FALSE, pos |-> <<>>]
                      ELSE resolveJsonPointer(d, Append(pos, index + 1),
                                              AfterToken(ptr))
             ELSE IF node.k = "object"
             THEN LET i == FindMember(node.v, tok, 1)
                  IN  IF i = 0
                      THEN [ok |-> FALSE, pos |-> <<>>]
                      ELSE resolveJsonPointer(d, Append(pos, i), AfterToken(ptr))
             ELSE [ok |-> FALSE, pos |-> <<>>]

----------------------------------------------------------------------------
(* GraphNode: a heap of nodes addressed by identity.  heap maps the        *)
(* identity of every node that still exists to its value; a weak pointer   *)
(* is an identity, and lock() succeeds iff the identity is still in heap.  *)

EmptyValue == [k |-> "Empty", v |-> <<>>]
ArrayValue(arr) == [k |-> "Array", v |-> arr]
BoolValue(b) == [k |-> "Bool", v |-> b]
DoubleValue(d) == [k |-> "Double", v |-> d]
IntegerValue(i) == [k |-> "Integer", v |-> i]
\* obj: <<key, node>> pairs in ascending key order (std::map)
ObjectValue(obj) == [k |-> "Object", v |-> obj]
ReferenceValue(target) == [k |-> "Reference", v |-> target]
StringValue(s) == [k |-> "String", v |-> s]

ValueKinds == {"Array", "Bool", "Double", "Integer", "Object", "String"}

\* std::map<std::string, shared_ptr<GraphNode>>::operator[](key) = node:
\* replaces the entry of an equal key, else inserts in key order.
RECURSIVE ObjectAssign(_, _, _)
ObjectAssign(obj, key, node) ==
    IF obj = <<>> THEN << <<key, node>> >>
    ELSE IF Head(obj)[1] = key THEN << <<key, node>> >> \o Tail(obj)
    ELSE IF StrLess(key, Head(obj)[1]) THEN << <<key, node>> >> \o obj
    ELSE <<Head(obj)>> \o ObjectAssign(Tail(obj), key, node)

\* The strong (owning) child handles of a node value.
Children(val) ==
    IF val.k = "Array" THEN {val.v[i] : i \in 1..Len(val.v)}
    ELSE IF val.k = "Object" THEN {val.v[i][2] : i \in 1..Len(val.v)}
    ELSE {}

GraphNode_isEmpty(h, n) == h[n].k = "Empty"

GraphNode_isReference(h, n) ==
    IF h[n].k = "Empty" THEN FALSE ELSE h[n].k = "Reference"

\* The outcome of a call: a returned value, no value (boost::none), or a
\* std::runtime_error.  Every throw site of the code raises the same type
\* with its own message; a throw is named here by its site:
\*   "DanglingReference"   "Referenced node no longer exists" (graph.hpp)
\*   "MalformedReference"  the $ref member is not a string (parseJsonReference)
\*   "PointerResolution"   the JSON Pointer names no value (resolveJsonPointer)
\*   "bad_weak_ptr"        a shared_ptr built from an expired weak_ptr
Thrown(what) == [st |-> "throw", v |-> what]
Throws(r, what) == r.st = "throw" /\ r.v = what
Returned(x) == [st |-> "ok", v |-> x]
None == [st |-> "none", v |-> <<>>]

\* lock() on a weak pointer: the target, or 0 once it was destroyed.
Lock(h, ref) == IF ref \in DOMAIN h THEN ref ELSE 0

\* A kind query that answers false where the target is gone.
RECURSIVE resolvesToQuiet(_, _, _)
resolvesToQuiet(h, n, kind) ==
    IF h[n].k = "Empty" THEN Returned(FALSE)
    ELSE IF h[n].k = "Reference"
    THEN IF Lock(h, h[n].v) # 0
         THEN resolvesToQuiet(h, h[n].v, kind)
         ELSE Returned(FALSE)
    ELSE Returned(h[n].k = kind)

\* GraphNode::resolvesTo<ValueType>()
RECURSIVE resolvesTo(_, _, _)
resolvesTo(h, n, kind) ==
    IF h[n].k = "Empty" THEN Returned(FALSE)
    ELSE IF h[n].k = "Reference"
    THEN IF Lock(h, h[n].v) # 0
         THEN resolvesTo(h, h[n].v, kind)
         ELSE Thrown("DanglingReference")
    ELSE Returned(h[n].k = kind)

\* GraphNode::resolveTo<ValueType>(): the value, none, or a throw.  The
\* overload with an output argument returns true and stores the value
\* exactly when this one returns a value.
RECURSIVE resolveTo(_, _, _)
resolveTo(h, n, kind) ==
    IF h[n].k # "Empty"
    THEN IF h[n].k = kind THEN Returned(h[n].v)
         ELSE IF h[n].k = "Reference"
         THEN IF Lock(h, h[n].v) # 0
              THEN resolveTo(h, h[n].v, kind)
              ELSE Thrown("DanglingReference")
         ELSE None
    ELSE None

\* GraphNode::sizeOfResolvedArray / sizeOfResolvedObject(size_t &result):
\* ret is the bool returned, result the value stored in the output
\* argument (-1 when nothing is stored).
RECURSIVE sizeOfResolved(_, _, _)
sizeOfResolved(h, n, kind) ==
    IF h[n].k = "Empty" THEN [st |-> "ok", ret |-> FALSE, result |-> -1]
    ELSE IF h[n].k = kind
    THEN [st |-> "ok", ret |-> (Len(h[n].v) # 0), result |-> -1]
    ELSE IF h[n].k = "Reference"
    THEN IF Lock(h, h[n].v) # 0
         THEN sizeOfResolved(h, h[n].v, kind)
         ELSE [st |-> "throw", ret |-> FALSE, result |-> -1]
    ELSE [st |-> "ok", ret |-> FALSE, result |-> -1]

sizeOfResolvedArray(h, n) == sizeOfResolved(h, n, "Array")
sizeOfResolvedObject(h, n) == sizeOfResolved(h, n, "Object")

----------------------------------------------------------------------------
(* JsonGraphAdapter: the read-only view of a node                          *)

JsonGraphValue_isArray(h, n) == resolvesTo(h, n, "Array")
JsonGraphValue_isBool(h, n) == resolvesTo(h, n, "Bool")
JsonGraphValue_isDouble(h, n) == resolvesTo(h, n, "Double")
JsonGraphValue_isInteger(h, n) == resolvesTo(h, n, "Integer")
JsonGraphValue_isNull(h, n) == Returned(GraphNode_isEmpty(h, n))
JsonGraphValue_isObject(h, n) == resolvesTo(h, n, "Object")
JsonGraphValue_isString(h, n) == resolvesTo(h, n, "String")

\* value->resolvesToDouble() || value->resolvesToInteger()
JsonGraphValue_isNumber(h, n) ==
    LET d == JsonGraphValue_isDouble(h, n)
    IN  IF d.st = "throw" \/ d.v THEN d ELSE JsonGraphValue_isInteger(h, n)

JsonGraphValue_getArrayOptional(h, n) == resolveTo(h, n, "Array")
JsonGraphValue_getObjectOptional(h, n) == resolveTo(h, n, "Object")
JsonGraphValue_getBool(h, n) == resolveTo(h, n, "Bool")
JsonGraphValue_getDouble(h, n) == resolveTo(h, n, "Double")
JsonGraphValue_getInteger(h, n) == resolveTo(h, n, "Integer")
JsonGraphValue_getString(h, n) == resolveTo(h, n, "String")
JsonGraphValue_getArraySize(h, n) == sizeOfResolvedArray(h, n)
JsonGraphValue_getObjectSize(h, n) == sizeOfResolvedObject(h, n)

\* JsonGraphArray::size() / JsonGraphObject::size()
JsonGraphArray_size(arr) == Len(arr)
JsonGraphObject_size(obj) == Len(obj)

\* An iteration that walks the vector from its end.
JsonGraphArray_backwards(arr) == [i \in 1..Len(arr) |-> arr[Len(arr) + 1 - i]]

\* JsonGraphArrayValueIterator from begin() to end(): after i increments the
\* iterator dereferences to an adapter on the i-th stored handle.
JsonGraphArray_iterate(arr) == [i \in 1..Len(arr) |-> arr[i]]

\* JsonGraphObjectMemberIterator from begin() to end(): the (name, adapter)
\* pairs in the order std::map keeps them.
JsonGraphObject_iterate(obj) == [i \in 1..Len(obj) |-> obj[i]]

\* JsonGraphObject::find(propertyName): the member's node, or 0 for end().
RECURSIVE JsonGraphObject_find(_, _)
JsonGraphObject_find(obj, propertyName) ==
    IF obj = <<>> THEN 0
    ELSE IF Head(obj)[1] = propertyName THEN Head(obj)[2]
    ELSE JsonGraphObject_find(Tail(obj), propertyName)

\* Depth to which two views are compared.
ViewDepth == 4

Cut == [k |-> "cut", v |-> <<>>]

\* What a consumer sees when it walks an adapter to a depth: the kind each
\* predicate reports, the extracted value, and members and elements in
\* iteration order, written in the shape of a document.
RECURSIVE View(_, _, _)
View(h, n, fuel) ==
    IF fuel = 0 THEN Cut
    ELSE IF JsonGraphValue_isNull(h, n).v THEN DNull
    ELSE IF JsonGraphValue_isArray(h, n).st = "throw"
    THEN [k |-> "throw", v |-> <<>>]
    ELSE IF JsonGraphValue_isArray(h, n).v
    THEN LET elems == JsonGraphArray_iterate(
                          JsonGraphValue_getArrayOptional(h, n).v)
         IN  DArr([i \in 1..Len(elems) |-> View(h, elems[i], fuel - 1)])
    ELSE IF JsonGraphValue_isObject(h, n).v
    THEN LET mems == JsonGraphObject_iterate(
                         JsonGraphValue_getObjectOptional(h, n).v)
         IN  DObj([i \in 1..Len(mems) |->
                     <<mems[i][1], View(h, mems[i][2], fuel - 1)>>])
    ELSE IF JsonGraphValue_isString(h, n).v
    THEN DStr(JsonGraphValue_getString(h, n).v)
    ELSE IF JsonGraphValue_isBool(h, n).v
    THEN DBool(JsonGraphValue_getBool(h, n).v)
    ELSE IF JsonGraphValue_isInteger(h, n).v
    THEN DInt(JsonGraphValue_getInteger(h, n).v)
    ELSE IF JsonGraphValue_isDouble(h, n).v
    THEN DDouble(JsonGraphValue_getDouble(h, n).v)
    ELSE [k |-> "unknown", v |-> <<>>]

\* Direct traversal of a source document to the same depth.
RECURSIVE DocView(_, _)
DocView(d, fuel) ==
    IF fuel = 0 THEN Cut
    ELSE IF d.k = "array"
    THEN DArr([i \in 1..Len(d.v) |-> DocView(d.v[i], fuel - 1)])
    ELSE IF d.k = "object"
    THEN DObj([i \in 1..Len(d.v) |->
                 <<d.v[i][1], DocView(d.v[i][2], fuel - 1)>>])
    ELSE d

----------------------------------------------------------------------------
(* The documents the parser is run on                                      *)

\* Longest currentNode stack a parseNode call is followed to.
MaxChase == 5

\* Longest array of numbered strings ("0", "1", ...), as the adapter test
\* builds it.
MaxElements == 3

KeyA == <<"a">>
KeyB == <<"b">>

Member(key, value) == <<key, value>>

\* {"$ref": "<ref>"}
RefObject(ref) == DObj(<<Member(RefKey, DStr(ref))>>)

\* {"$ref": 5}
MalformedRef == DObj(<<Member(RefKey, DInt(5))>>)

Scalars == {DNull, DBool(TRUE), DInt(1), DDouble(15), DStr(<<"s">>)}

FewScalars == {DInt(1), DStr(<<"s">>)}

\* "#", "#/a", "#/b", "#/a/b", "#/0"
RefStrings ==
    {<<"#">>, <<"#", "/", "a">>, <<"#", "/", "b">>,
     <<"#", "/", "a", "/", "b">>, <<"#", "/", "0">>}

RefObjects == {RefObject(r) : r \in RefStrings} \cup {MalformedRef}

\* Values without any $ref, nested at most once.
PlainValues ==
    Scalars \cup {DArr(<<>>), DObj(<<>>)}
    \cup {DArr(<<x>>) : x \in FewScalars}
    \cup {DObj(<<Member(k, x)>>) : k \in {KeyA, KeyB}, x \in FewScalars}

\* Documents without any $ref: scalars, and arrays and objects of up to two
\* plain values, the members in either key order or under one repeated key.
PlainDocs ==
    PlainValues
    \cup {DArr(<<x, y>>) : x, y \in PlainValues}
    \cup {DObj(<<Member(k1, x), Member(k2, y)>>) :
            k1, k2 \in {KeyA, KeyB}, x, y \in PlainValues}

\* ["0", "1", ..., "n-1"]
NumberedArray(n) == DArr([i \in 1..n |-> DStr(lexical_cast_string(i - 1))])

NumberedDocs == {NumberedArray(n) : n \in 0..MaxElements}

\* Values with references: JSON References, containers of one reference or
\* scalar, and reference objects that carry a second member.
RefValues ==
    {DInt(1), DObj(<<>>)} \cup RefObjects
    \cup {DObj(<<Member(k, x)>>) : k \in {KeyA, KeyB},
                                   x \in {DInt(1)} \cup RefObjects}
    \cup {DArr(<<x>>) : x \in {DInt(1)} \cup RefObjects}
    \cup {DObj(<<Member(RefKey, DStr(r)), Member(KeyB, x)>>) :
            r \in {<<"#", "/", "b">>}, x \in {DInt(1), MalformedRef}}

RefDocs ==
    RefValues
    \cup {DObj(<<Member(k, x)>>) : k \in {KeyA, KeyB}, x \in RefValues}
    \cup {DObj(<<Member(k1, x), Member(k2, y)>>) :
            k1, k2 \in {KeyA, KeyB}, x, y \in RefValues}
    \cup {DArr(<<x, y>>) : x, y \in RefValues}

Docs == PlainDocs \cup NumberedDocs \cup RefDocs

----------------------------------------------------------------------------
(* State                                                                   *)

VARIABLES
    doc,            \* the input document handed to parse
    heap,           \* node identity -> GraphValue, for every live GraphNode
    next,           \* the identity the next make_shared<GraphNode> gets
    root,           \* Graph::root of each Graph (0: the Graph was destroyed)
    adapters,       \* nodes held by a JsonGraphAdapter (shared_ptr handles)
    resolvedNodes,  \* parse's local map: canonical path -> weak_ptr
    stack,          \* the call stack of the running parse, innermost last
    status,         \* "idle", "parsing", "unwinding", "done" or "fault"
    fault,          \* what the running or last parse threw, or "none"
    target,         \* the Graph the running or last parse was given
    parses,         \* number of parse calls each Graph was given to
    subschema,      \* a Subschema and the apply call running on it
    readers,        \* the read each reader of the graph is in the middle of
    called          \* the GraphNode setter called last, its node and argument

\* The state of the graph, its parser and its adapters.
graphVars == <<doc, heap, next, root, adapters, resolvedNodes, stack, status,
               fault, target, parses>>

vars == <<graphVars, subschema, readers, called>>

Graphs == {1, 2}

NoNodes == [p \in {} |-> 0]

\* std::map::insert(value_type(key, node)): keeps an existing entry.
MapInsert(map, key, node) ==
    IF key \in DOMAIN map THEN map
    ELSE [p \in DOMAIN map \cup {key} |-> IF p = key THEN node ELSE map[p]]

\* BOOST_FOREACH over untypedReferences, inserting each path.
MapInsertAll(map, keys, node) ==
    [p \in DOMAIN map \cup keys |-> IF p \in DOMAIN map THEN map[p] ELSE node]

\* The frames of the call stack.
ParseFrame ==
    [fn |-> "parse", graphNode |-> 0]

ParseNodeFrame(startNode, path) ==
    [fn |-> "parseNode", pc |-> "entry", startNode |-> startNode,
     path |-> path, jsonReference |-> <<>>, currentPath |-> path,
     currentRoot |-> << <<>> >>, currentNode |-> <<startNode>>,
     untypedReferences |-> {}, newGraphNode |-> 0]

ParseNodeIntoFrame(graphNode, currentNode, path) ==
    [fn |-> "parseNodeInto", graphNode |-> graphNode,
     currentNode |-> currentNode, path |-> path, currentIndex |-> 0,
     obj |-> <<>>, arr |-> <<>>]

Top == stack[Len(stack)]
Below == SubSeq(stack, 1, Len(stack) - 1)
Last(seq) == seq[Len(seq)]

\* The shared_ptr handles a frame's local variables hold.
FrameHandles(f) ==
    IF f.fn = "parse" THEN {f.graphNode} \ {0}
    ELSE IF f.fn = "parseNode" THEN {f.newGraphNode} \ {0}
    ELSE {f.obj[i][2] : i \in 1..Len(f.obj)}
         \cup {f.arr[i] : i \in 1..Len(f.arr)}

\* Every shared_ptr handle held outside the nodes themselves.
Handles(r, a, st) ==
    ({r[g] : g \in Graphs} \ {0}) \cup a
    \cup UNION {FrameHandles(st[i]) : i \in 1..Len(st)}

\* shared_ptr reference counting: a node is destroyed when no handle and no
\* live Array/Object slot holds it, and its own child handles go with it.
RECURSIVE Sweep(_, _)
Sweep(h, handles) ==
    LET owned == UNION {Children(h[m]) : m \in DOMAIN h}
        dead == {n \in DOMAIN h : n \notin handles /\ n \notin owned}
    IN  IF dead = {} THEN h
        ELSE Sweep([n \in DOMAIN h \ dead |-> h[n]], handles)

----------------------------------------------------------------------------
(* GraphParser                                                             *)

\* The caller's frame once parseNode has returned `node` to it: parse keeps
\* it in graphNode; parseNodeInto stores it under the member's name
\* (obj[propertyName] = newNode) or appends it (arr.push_back(newNode)).
ReturnTo(caller, node) ==
    IF caller.fn = "parse" THEN [caller EXCEPT !.graphNode = node]
    ELSE LET d == At(doc, caller.currentNode)
         IN  IF d.k = "object"
             THEN [caller EXCEPT
                     !.obj = ObjectAssign(@, d.v[caller.currentIndex + 1][1],
                                          node),
                     !.currentIndex = @ + 1]
             ELSE [caller EXCEPT
                     !.arr = Append(@, node),
                     !.currentIndex = @ + 1]

\* The call stack after the innermost parseNode returned `node`.
Deliver(node) ==
    Append(SubSeq(stack, 1, Len(stack) - 2),
           ReturnTo(stack[Len(stack) - 1], node))

\* A Reference made from the handle of the node being made.
ReferenceNodeSelf(node) == ReferenceValue(next)

\* A node made without the weak pointer: make_shared<GraphNode>().
ReferenceNodeEmpty(node) == EmptyValue

\* GraphNode(const Reference &): the node line 141 makes for a resolved path.
ReferenceNodeFor(node) == ReferenceValue(node)

\* A parseNode that hands back the resolved node itself, by a strong handle.
ChaseResultStrong(fresh, resolved) == resolved

\* parseNode, line 141: a resolved reference returns the fresh Reference
\* node, never the node it resolved to.
ChaseResult(fresh, resolved) == fresh

\* A parseNode that registers nothing before it parses the children.
RegisterLate(map, path, node) == map

\* parseNode, lines 157-158: the placeholder is registered under the final
\* path before parseNodeInto runs.
RegisterPlaceholder(map, path, node) == MapInsert(map, path, node)

\* A map that outlives the parse call (a static or a member of the parser).
StaticMap(previous) == previous

\* parse, line 26: ResolvedNodes resolvedNodes is a local of parse, empty at
\* every call and gone when the call is left.
LocalMap(previous) == NoNodes

\* A parse that empties the Graph it was given before it converts the
\* document (graph = Graph() as its first statement).
StartParseCleared(g) ==
    /\ status \in {"idle", "done", "fault"}
    /\ root[g] # 0
    /\ status' = "parsing"
    /\ fault' = "none"
    /\ target' = g
    /\ parses' = [parses EXCEPT ![g] = @ + 1]
    /\ resolvedNodes' = LocalMap(resolvedNodes)
    /\ stack' = <<ParseFrame, ParseNodeFrame(<<>>, <<>>)>>
    /\ next' = next + 1
    /\ root' = [root EXCEPT ![g] = next]
    /\ heap' = Sweep([n \in DOMAIN heap \cup {next} |->
                         IF n = next THEN EmptyValue ELSE heap[n]],
                     Handles(root', adapters, stack'))
    /\ UNCHANGED <<doc, adapters>>

\* GraphParser::parse, lines 26-28: a fresh map, then parseNode on the root.
StartParse(g) ==
    /\ status \in {"idle", "done", "fault"}
    /\ root[g] # 0
    /\ status' = "parsing"
    /\ fault' = "none"
    /\ target' = g
    /\ parses' = [parses EXCEPT ![g] = @ + 1]
    /\ resolvedNodes' = LocalMap(resolvedNodes)
    /\ stack' = <<ParseFrame, ParseNodeFrame(<<>>, <<>>)>>
    /\ UNCHANGED <<doc, heap, next, root, adapters>>

\* parseNode, lines 100-119: the memo lookup, then parseJsonReference.
ParseNodeEntry ==
    /\ status = "parsing"
    /\ Top.fn = "parseNode" /\ Top.pc = "entry"
    /\ IF Top.path \in DOMAIN resolvedNodes
       THEN IF resolvedNodes[Top.path] \in DOMAIN heap
            THEN /\ stack' = Deliver(resolvedNodes[Top.path])
                 /\ UNCHANGED <<status, fault>>
            ELSE /\ status' = "unwinding"
                 /\ fault' = "bad_weak_ptr"
                 /\ UNCHANGED stack
       ELSE LET r == parseJsonReference(At(doc, Top.startNode))
            IN  IF r.st = "throw"
                THEN /\ status' = "unwinding"
                     /\ fault' = r.v
                     /\ UNCHANGED stack
                ELSE /\ stack' = Append(Below,
                            [Top EXCEPT
                               !.pc = IF r.st = "ok" THEN "chase"
                                      ELSE "create",
                               !.jsonReference = r.v])
                     /\ UNCHANGED <<status, fault>>
    /\ heap' = Sweep(heap, Handles(root, adapters, stack'))
    /\ UNCHANGED <<doc, next, root, adapters, resolvedNodes, target, parses>>

\* The node one iteration of the chase loop continues from (line 149).
ChaseFrom(f) == Last(f.currentNode)

\* parseNode, lines 121-151: one iteration of while (jsonReference).
ChaseReference ==
    /\ status = "parsing"
    /\ Top.fn = "parseNode" /\ Top.pc = "chase"
    /\ Len(Top.currentNode) < MaxChase
    /\ LET currentPath == getJsonReferencePointer(Top.jsonReference)
           f == [Top EXCEPT !.currentPath = currentPath,
                            !.currentRoot = Append(@, <<>>)]
       IN  IF currentPath \in DOMAIN resolvedNodes
           THEN /\ resolvedNodes' =
                       MapInsertAll(resolvedNodes, f.untypedReferences,
                                    resolvedNodes[currentPath])
                /\ next' = next + 1
                /\ stack' = Deliver(ChaseResult(next,
                                                resolvedNodes[currentPath]))
                /\ heap' = Sweep(
                       [n \in DOMAIN heap \cup {next} |->
                          IF n = next
                          THEN ReferenceNodeFor(resolvedNodes[currentPath])
                          ELSE heap[n]],
                       Handles(root, adapters, stack'))
                /\ UNCHANGED <<status, fault>>
           ELSE LET g == [f EXCEPT !.untypedReferences = @ \cup {currentPath}]
                    r == resolveJsonPointer(doc, ChaseFrom(g), currentPath)
                IN  /\ IF r.ok
                       THEN /\ stack' = Append(Below,
                                   [g EXCEPT !.currentNode = Append(@, r.pos)])
                            /\ UNCHANGED <<status, fault>>
                       ELSE /\ stack' = Append(Below, g)
                            /\ status' = "unwinding"
                            /\ fault' = "PointerResolution"
                    /\ UNCHANGED <<heap, next, resolvedNodes>>
    /\ UNCHANGED <<doc, root, adapters, target, parses>>

\* parseNode, lines 155-161: the placeholder, registered before its children
\* are parsed, and the call of parseNodeInto.
CreateNode ==
    /\ status = "parsing"
    /\ Top.fn = "parseNode" /\ Top.pc = "create"
    /\ next' = next + 1
    /\ resolvedNodes' = RegisterPlaceholder(resolvedNodes, Top.currentPath,
                                            next)
    /\ stack' = Below \o
           <<[Top EXCEPT !.pc = "aliases", !.newGraphNode = next],
             ParseNodeIntoFrame(next, Last(Top.currentNode), Top.currentPath)>>
    /\ heap' = [n \in DOMAIN heap \cup {next} |->
                  IF n = next THEN EmptyValue ELSE heap[n]]
    /\ UNCHANGED <<doc, root, adapters, status, fault, target, parses>>

\* parseNodeInto, lines 184-188 and 197-202: the next member or element is
\* parsed by a recursive parseNode at path + "/" + its name or index.
ParseChild ==
    /\ status = "parsing"
    /\ Top.fn = "parseNodeInto"
    /\ LET d == At(doc, Top.currentNode)
           i == Top.currentIndex + 1
       IN  /\ d.k \in {"object", "array"}
           /\ i <= Len(d.v)
           /\ stack' = Append(stack,
                  ParseNodeFrame(Append(Top.currentNode, i),
                      Top.path \o <<"/">> \o
                        (IF d.k = "object" THEN d.v[i][1]
                         ELSE lexical_cast_string(Top.currentIndex))))
    /\ UNCHANGED <<doc, heap, next, root, adapters, resolvedNodes, status,
                   fault, target, parses>>

\* The value parseNodeInto stores in the placeholder (lines 192, 207-219); a
\* null leaves it empty.
IntoValue(f) ==
    LET d == At(doc, f.currentNode)
    IN  CASE d.k = "object" -> ObjectValue(f.obj)
          [] d.k = "array" -> ArrayValue(f.arr)
          [] d.k = "string" -> StringValue(d.v)
          [] d.k = "bool" -> BoolValue(d.v)
          [] d.k = "integer" -> IntegerValue(d.v)
          [] d.k = "double" -> DoubleValue(d.v)
          [] OTHER -> EmptyValue

\* parseNodeInto, lines 192-221: the loop is over (or the node is a scalar);
\* the setter populates the placeholder in place and parseNodeInto returns.
PopulateNode ==
    /\ status = "parsing"
    /\ Top.fn = "parseNodeInto"
    /\ LET d == At(doc, Top.currentNode)
       IN  d.k \in {"object", "array"} => Top.currentIndex >= Len(d.v)
    /\ stack' = Below
    /\ heap' = Sweep([heap EXCEPT ![Top.graphNode] = IntoValue(Top)],
                     Handles(root, adapters, stack'))
    /\ UNCHANGED <<doc, next, root, adapters, resolvedNodes, status, fault,
                   target, parses>>

\* parseNode, lines 165-169: the aliases seen on the way get the new node,
\* which is returned.
RegisterAliases ==
    /\ status = "parsing"
    /\ Top.fn = "parseNode" /\ Top.pc = "aliases"
    /\ resolvedNodes' = MapInsertAll(resolvedNodes, Top.untypedReferences,
                                     Top.newGraphNode)
    /\ stack' = Deliver(Top.newGraphNode)
    /\ heap' = Sweep(heap, Handles(root, adapters, stack'))
    /\ UNCHANGED <<doc, next, root, adapters, status, fault, target, parses>>

\* Graph::setRootNode as parse, line 29, uses it: the root handle is replaced.
setRootNode(r, g, node) == [r EXCEPT ![g] = node]

\* parse, lines 29-30: install the root; the map goes out of scope.
FinishParse ==
    /\ status = "parsing"
    /\ Top.fn = "parse" /\ Top.graphNode # 0
    /\ root' = setRootNode(root, target, Top.graphNode)
    /\ stack' = <<>>
    /\ resolvedNodes' = LocalMap(resolvedNodes)
    /\ status' = "done"
    /\ heap' = Sweep(heap, Handles(root', adapters, stack'))
    /\ UNCHANGED <<doc, next, adapters, fault, target, parses>>

\* An exception leaves parse: every frame's locals are destroyed.
Unwind ==
    /\ status = "unwinding"
    /\ stack' = <<>>
    /\ resolvedNodes' = LocalMap(resolvedNodes)
    /\ status' = "fault"
    /\ heap' = Sweep(heap, Handles(root, adapters, stack'))
    /\ UNCHANGED <<doc, next, root, adapters, fault, target, parses>>

ParserStep ==
    \/ ParseNodeEntry
    \/ ChaseReference
    \/ CreateNode
    \/ ParseChild
    \/ PopulateNode
    \/ RegisterAliases
    \/ FinishParse
    \/ Unwind

----------------------------------------------------------------------------
(* Subschema: the constraints of a sub-schema and apply over them          *)

\* Constraints added to one Subschema.
MaxConstraints == 5

\* Subschema::Subschema(): no constraints; no apply call is running.
\* constraints is the vector of owned constraints, each named by the number
\* of the addConstraint call that added it.  Of an apply call: itr is the
\* position of BOOST_FOREACH, allTrue the local of that name, calls the
\* constraints the callback was invoked on so far and answers what each of
\* these invocations returned, result the value apply returned.
NewSubschema ==
    [constraints |-> <<>>, pc |-> "idle", itr |-> 0, allTrue |-> TRUE,
     calls |-> <<>>, answers |-> <<>>, result |-> TRUE]

\* Subschema::addConstraint: constraints.push_back(...).  What is recorded
\* of an apply call that returned before is dropped.
addConstraint ==
    /\ subschema.pc \in {"idle", "returned"}
    /\ Len(subschema.constraints) < MaxConstraints
    /\ subschema' = [NewSubschema EXCEPT
                       !.constraints = Append(subschema.constraints,
                                              Len(subschema.constraints) + 1)]
    /\ UNCHANGED <<graphVars, readers, called>>

\* Subschema::apply is called: bool allTrue = true, the loop starts.
ApplyCall ==
    /\ subschema.pc \in {"idle", "returned"}
    /\ subschema' = [subschema EXCEPT
                       !.pc = "loop", !.itr = 1, !.allTrue = TRUE,
                       !.calls = <<>>, !.answers = <<>>]
    /\ UNCHANGED <<graphVars, readers, called>>

\* allTrue = allTrue && applyFunction(*constraint), for a callback that
\* returns `answer` when it is invoked: && evaluates its right operand,
\* the invocation, only where allTrue is true.
ApplyBody(sub, answer) ==
    IF sub.allTrue
    THEN [sub EXCEPT !.calls = Append(@, sub.constraints[sub.itr]),
                     !.answers = Append(@, answer),
                     !.allTrue = answer,
                     !.itr = @ + 1]
    ELSE [sub EXCEPT !.itr = @ + 1]

\* One iteration of BOOST_FOREACH in apply.
ApplyIteration ==
    /\ subschema.pc = "loop"
    /\ subschema.itr <= Len(subschema.constraints)
    /\ \E answer \in BOOLEAN : subschema' = ApplyBody(subschema, answer)
    /\ UNCHANGED <<graphVars, readers, called>>

\* apply: return allTrue.
ApplyReturn ==
    /\ subschema.pc = "loop"
    /\ subschema.itr > Len(subschema.constraints)
    /\ subschema' = [subschema EXCEPT !.pc = "returned",
                                      !.result = subschema.allTrue]
    /\ UNCHANGED <<graphVars, readers, called>>

\* The nodes reachable from a node through child handles and Reference
\* links, whether they still exist or not.
RECURSIVE Span(_, _, _)
Span(h, frontier, seen) ==
    LET new == frontier \ seen
        live == new \cap DOMAIN h
    IN  IF new = {} THEN seen
        ELSE Span(h,
                  UNION {Children(h[n]) : n \in live}
                    \cup {h[n].v : n \in {m \in live : h[m].k = "Reference"}},
                  seen \cup new)

----------------------------------------------------------------------------
(* Readers: reads through JsonGraphAdapter, one node visit at a time       *)

Readers == {1, 2}

\* The reads of JsonGraphValue: is<Kind> (resolvesTo), get<Kind>
\* (resolveTo), getArraySize / getObjectSize (sizeOfResolved), isNull,
\* isNumber, and iteration over getArray() / getObject().
ReadOps ==
    {[op |-> "resolvesTo", kind |-> k] : k \in ValueKinds}
    \cup {[op |-> "resolveTo", kind |-> k] : k \in ValueKinds}
    \cup {[op |-> o, kind |-> k] :
            o \in {"sizeOfResolved", "iterate"}, k \in {"Array", "Object"}}
    \cup {[op |-> "isNull", kind |-> "Empty"],
          [op |-> "isNumber", kind |-> "Double"]}

\* A reader between two reads.
IdleReader ==
    [pc |-> "idle", op |-> "none", kind |-> "none", start |-> 0, at |-> 0,
     idx |-> 0, coll |-> <<>>, result |-> None]

NoReads == [r \in Readers |-> IdleReader]

\* A read that takes the value out of the node (a move instead of a copy).
ExtractByMove(h, at) == [heap |-> [h EXCEPT ![at] = EmptyValue], v |-> h[at].v]

\* return *v / valueType = *v in resolveTo: the value is copied out of the
\* node, which is const.
Extract(h, at) == [heap |-> h, v |-> h[at].v]

\* The read returns with a result.
ReadDone(rd, result) == [rd EXCEPT !.pc = "done", !.result = result]

\* rs = r->lock(); return rs->...(): the call goes on at the target, or
\* throws where the target is gone.
ReadFollow(h, rd, thrown) ==
    IF Lock(h, h[rd.at].v) # 0
    THEN [rd EXCEPT !.at = Lock(h, h[rd.at].v)]
    ELSE ReadDone(rd, thrown)

\* One activation of resolvesTo, resolveTo or sizeOfResolved* (or the one
\* call of isEmpty) at the node the read has come to: the heap and the
\* reader after it.
ReadAt(h, rd) ==
    LET k == h[rd.at].k
        same == [heap |-> h, reader |-> rd]
    IN  CASE rd.op = "isNull" ->
               [same EXCEPT !.reader = ReadDone(rd, Returned(k = "Empty"))]
          [] rd.op \in {"resolvesTo", "isNumber"} ->
               LET answer == IF k = "Empty" THEN FALSE ELSE k = rd.kind
               IN  IF k = "Reference"
                   THEN [same EXCEPT !.reader =
                           ReadFollow(h, rd, Thrown("DanglingReference"))]
                   ELSE IF rd.op = "isNumber" /\ rd.kind = "Double"
                           /\ ~answer
                   THEN [same EXCEPT !.reader =
                           [rd EXCEPT !.kind = "Integer", !.at = rd.start]]
                   ELSE [same EXCEPT !.reader =
                           ReadDone(rd, Returned(answer))]
          [] rd.op \in {"resolveTo", "iterate"} ->
               IF k = rd.kind
               THEN LET e == Extract(h, rd.at)
                    IN  [heap |-> e.heap,
                         reader |->
                           IF rd.op = "iterate"
                           THEN [rd EXCEPT !.pc = "iter", !.coll = e.v,
                                           !.result = Returned(<<>>)]
                           ELSE ReadDone(rd, Returned(e.v))]
               ELSE IF k = "Reference"
               THEN [same EXCEPT !.reader =
                       ReadFollow(h, rd, Thrown("DanglingReference"))]
               ELSE [same EXCEPT !.reader = ReadDone(rd, None)]
          [] OTHER ->
               IF k = rd.kind
               THEN [same EXCEPT !.reader =
                       ReadDone(rd, [st |-> "ok", ret |-> (Len(h[rd.at].v) # 0),
                                     result |-> -1])]
               ELSE IF k = "Reference"
               THEN [same EXCEPT !.reader =
                       ReadFollow(h, rd, [st |-> "throw", ret |-> FALSE,
                                          result |-> -1])]
               ELSE [same EXCEPT !.reader =
                       ReadDone(rd, [st |-> "ok", ret |-> FALSE,
                                     result |-> -1])]

\* A reader calls a read on an adapter over some node of the parsed graph.
ReadCall(r) ==
    /\ status = "done"
    /\ readers[r].pc = "idle"
    /\ \E n \in Span(heap, {root[target]}, {}) :
           \E o \in ReadOps :
               readers' = [readers EXCEPT ![r] =
                   [IdleReader EXCEPT !.pc = "run", !.op = o.op,
                                      !.kind = o.kind, !.start = n, !.at = n]]
    /\ UNCHANGED <<graphVars, subschema, called>>

\* The read of a reader visits the node it has come to.
ReadVisit(r) ==
    /\ readers[r].pc = "run"
    /\ LET after == ReadAt(heap, readers[r])
       IN  /\ heap' = after.heap
           /\ readers' = [readers EXCEPT ![r] = after.reader]
    /\ UNCHANGED <<doc, next, root, adapters, resolvedNodes, stack, status,
                   fault, target, parses, subschema, called>>

\* One dereference and increment of the iterator over the copy the reader
\* got from getArray() or getObject(), or the iterator reaching end().
ReadIterate(r) ==
    /\ readers[r].pc = "iter"
    /\ LET rd == readers[r]
           seen == IF rd.kind = "Array" THEN JsonGraphArray_iterate(rd.coll)
                   ELSE JsonGraphObject_iterate(rd.coll)
       IN  readers' = [readers EXCEPT ![r] =
               IF rd.idx < Len(rd.coll)
               THEN [rd EXCEPT !.idx = @ + 1,
                               !.result = Returned(Append(rd.result.v,
                                                          seen[rd.idx + 1]))]
               ELSE [rd EXCEPT !.pc = "done"]]
    /\ UNCHANGED <<graphVars, subschema, called>>

\* The caller has the result; the reader is free for its next read.
ReadReturn(r) ==
    /\ readers[r].pc = "done"
    /\ readers' = [readers EXCEPT ![r] = IdleReader]
    /\ UNCHANGED <<graphVars, subschema, called>>

\* What a read returns when nothing else runs between its call and its
\* return.
ReadAlone(h, n, op, kind) ==
    CASE op = "isNull" -> JsonGraphValue_isNull(h, n)
      [] op = "isNumber" -> JsonGraphValue_isNumber(h, n)
      [] op = "resolvesTo" -> resolvesTo(h, n, kind)
      [] op = "resolveTo" -> resolveTo(h, n, kind)
      [] op = "iterate" ->
           LET c == resolveTo(h, n, kind)
           IN  IF c.st # "ok" THEN c
               ELSE IF kind = "Array"
               THEN Returned(JsonGraphArray_iterate(c.v))
               ELSE Returned(JsonGraphObject_iterate(c.v))
      [] OTHER -> sizeOfResolved(h, n, kind)

----------------------------------------------------------------------------
(* GraphNode setters: a node populated in place                            *)

\* No setter was called yet.
NoCall == [op |-> "none", node |-> 0, arg |-> <<>>]

\* GraphNode::setArray .. setString: this->value = value, for the value of
\* the setter's kind.  Each gives the GraphValue the node holds afterwards,
\* from the one it held and the argument.
setArray(held, value) == ArrayValue(value)
setBool(held, value) == BoolValue(value)
setDouble(held, value) == DoubleValue(value)
setInteger(held, value) == IntegerValue(value)
setObject(held, value) == ObjectValue(value)
setString(held, value) == StringValue(value)

\* GraphNode::setReference(const Reference &reference): this->value = value.
\* The parameter is named reference; `value` is the member, assigned to
\* itself.
setReference(held, reference) == held

\* GraphNode::reset(): value = boost::none.
reset(held) == EmptyValue

\* A setter runs on a node the caller holds: the node's value is replaced
\* in place, and what only the replaced value owned is destroyed.
SetNode(op, n, arg, val) ==
    /\ status = "idle"
    /\ n \in adapters
    /\ heap' = Sweep([heap EXCEPT ![n] = val], Handles(root, adapters, stack))
    /\ called' = [op |-> op, node |-> n, arg |-> arg]
    /\ UNCHANGED <<doc, next, root, adapters, resolvedNodes, stack, status,
                   fault, target, parses, subschema, readers>>

\* Arrays and objects a caller builds from the nodes it holds.
ArraysOf(nodes) == {<<>>} \cup {<<c>> : c \in nodes}
ObjectsOf(nodes) == {<<>>} \cup {<< <<KeyA, c>> >> : c \in nodes}

CallSetArray ==
    \E n \in adapters : \E a \in ArraysOf(adapters \ {n}) :
        SetNode("setArray", n, a, setArray(heap[n], a))

CallSetBool ==
    \E n \in adapters : \E b \in BOOLEAN :
        SetNode("setBool", n, b, setBool(heap[n], b))

CallSetDouble ==
    \E n \in adapters : SetNode("setDouble", n, 15, setDouble(heap[n], 15))

CallSetInteger ==
    \E n \in adapters : SetNode("setInteger", n, 1, setInteger(heap[n], 1))

CallSetObject ==
    \E n \in adapters : \E o \in ObjectsOf(adapters \ {n}) :
        SetNode("setObject", n, o, setObject(heap[n], o))

CallSetString ==
    \E n \in adapters :
        SetNode("setString", n, <<"0">>, setString(heap[n], <<"0">>))

CallSetReference ==
    \E n \in adapters : \E r \in adapters \ {n} :
        SetNode("setReference", n, r, setReference(heap[n], r))

CallReset ==
    \E n \in adapters : SetNode("reset", n, <<>>, reset(heap[n]))

----------------------------------------------------------------------------
(* Specifications                                                          *)

\* Graph::Graph(): every Graph starts with an empty root node of its own.
InitGraphs ==
    /\ heap = [n \in Graphs |-> EmptyValue]
    /\ next = 3
    /\ root = [g \in Graphs |-> g]
    /\ adapters = {}
    /\ resolvedNodes = NoNodes
    /\ stack = <<>>
    /\ status = "idle"
    /\ fault = "none"
    /\ target = 1
    /\ parses = [g \in Graphs |-> 0]

Init ==
    /\ doc \in Docs
    /\ InitGraphs
    /\ subschema = NewSubschema
    /\ readers = NoReads
    /\ called = NoCall

\* One GraphParser::parse(doc, graph) call, run to its end.
Next ==
    /\ \/ (parses[1] = 0 /\ StartParse(1))
       \/ ParserStep
    /\ UNCHANGED <<subschema, readers, called>>

Spec == Init /\ [][Next]_vars

\* Parse calls followed when the document is parsed more than once.
MaxParses == 2

\* Documents parsed twice: the reference values, alone and as a member.
TwiceDocs ==
    RefValues \cup NumberedDocs
    \cup {DObj(<<Member(KeyA, x)>>) : x \in RefValues}
    \cup {DObj(<<Member(KeyB, x), Member(KeyA, y)>>) :
            x \in FewScalars, y \in RefObjects}

\* Graph::~Graph(): the Graph gives up its root handle.
ReleaseGraph(g) ==
    /\ status \in {"idle", "done", "fault"}
    /\ root[g] # 0
    /\ root' = [root EXCEPT ![g] = 0]
    /\ heap' = Sweep(heap, Handles(root', adapters, stack))
    /\ UNCHANGED <<doc, next, adapters, resolvedNodes, stack, status, fault,
                   target, parses>>

InitTwice ==
    /\ doc \in TwiceDocs
    /\ InitGraphs
    /\ subschema = NewSubschema
    /\ readers = NoReads
    /\ called = NoCall

\* The same document parsed into either Graph, again and again, and Graphs
\* destroyed in between.
NextTwice ==
    /\ \/ \E g \in Graphs :
              /\ parses[1] + parses[2] < MaxParses
              /\ StartParse(g)
       \/ ParserStep
       \/ \E g \in Graphs : ReleaseGraph(g)
    /\ UNCHANGED <<subschema, readers, called>>

SpecTwice == InitTwice /\ [][NextTwice]_vars

\* Nodes a user of GraphNode creates directly.
MaxNodes == 3

\* Longest Array a user builds.
MaxChildren == 2

NodeScalars ==
    {EmptyValue, BoolValue(TRUE), IntegerValue(1), DoubleValue(15),
     StringValue(<<"0">>)}

\* boost::make_shared<GraphNode>(value): a new node, held by the caller.
MakeNode(val) ==
    /\ next <= MaxNodes
    /\ next' = next + 1
    /\ adapters' = adapters \cup {next}
    /\ heap' = [n \in DOMAIN heap \cup {next} |->
                  IF n = next THEN val ELSE heap[n]]
    /\ UNCHANGED <<doc, root, resolvedNodes, stack, status, fault, target,
                   parses>>

\* GraphNode(), GraphNode(bool), GraphNode(double), GraphNode(int64_t),
\* GraphNode(const String &)
MakeScalar == \E val \in NodeScalars : MakeNode(val)

\* GraphNode(const Array &): a vector of handles the caller holds.
MakeArray ==
    \E len \in 0..MaxChildren :
        \E arr \in [1..len -> adapters] : MakeNode(ArrayValue(arr))

\* std::map built by the caller from a name -> handle table: one entry per
\* name, kept in key order whatever the order of insertion.
RECURSIVE ObjectOf(_, _)
ObjectOf(obj, members) ==
    IF DOMAIN members = {} THEN obj
    ELSE LET name == CHOOSE k \in DOMAIN members : TRUE
         IN  ObjectOf(ObjectAssign(obj, name, members[name]),
                      [k \in DOMAIN members \ {name} |-> members[k]])

\* GraphNode(const Object &)
MakeObject ==
    \E names \in SUBSET {KeyA, KeyB} :
        \E members \in [names -> adapters] :
            MakeNode(ObjectValue(ObjectOf(<<>>, members)))

\* GraphNode(const Reference &): a weak pointer to a node the caller holds.
MakeReference == \E t \in adapters : MakeNode(ReferenceNodeFor(t))

\* The caller's shared_ptr to a node goes out of scope.
DropHandle ==
    \E n \in adapters :
        /\ adapters' = adapters \ {n}
        /\ heap' = Sweep(heap, Handles(root, adapters', stack))
        /\ UNCHANGED <<doc, next, root, resolvedNodes, stack, status, fault,
                       target, parses>>

InitNode ==
    /\ doc = DNull
    /\ heap = NoNodes
    /\ next = 1
    /\ root = [g \in Graphs |-> 0]
    /\ adapters = {}
    /\ resolvedNodes = NoNodes
    /\ stack = <<>>
    /\ status = "idle"
    /\ fault = "none"
    /\ target = 1
    /\ parses = [g \in Graphs |-> 0]
    /\ subschema = NewSubschema
    /\ readers = NoReads
    /\ called = NoCall

\* GraphNode used directly, as the adapter test does.
NextNode ==
    /\ \/ MakeScalar
       \/ MakeArray
       \/ MakeObject
       \/ MakeReference
       \/ DropHandle
    /\ UNCHANGED <<subschema, readers, called>>

SpecNode == InitNode /\ [][NextNode]_vars

\* A Subschema given constraints and applied, with callbacks that answer
\* either way.
InitApply ==
    /\ doc = DNull
    /\ InitGraphs
    /\ subschema = NewSubschema
    /\ readers = NoReads
    /\ called = NoCall

NextApply ==
    \/ addConstraint
    \/ ApplyCall
    \/ ApplyIteration
    \/ ApplyReturn

SpecApply == InitApply /\ [][NextApply]_vars

\* Documents read after the parse: references to an ancestor, to the root,
\* to an earlier sibling (a string, an array), and the array of the adapter
\* test.
ReadDocs ==
    {DObj(<<Member(KeyA, DObj(<<Member(KeyB, RefObject(<<"#", "/", "a">>))>>))>>),
     DObj(<<Member(KeyA, RefObject(<<"#">>))>>),
     DArr(<<DStr(<<"s">>), RefObject(<<"#", "/", "0">>)>>),
     DObj(<<Member(KeyA, DArr(<<DInt(1)>>)),
            Member(KeyB, RefObject(<<"#", "/", "a">>))>>),
     DArr(<<DNull, RefObject(<<"#", "/", "0">>)>>),
     NumberedArray(2)}

InitRead ==
    /\ doc \in ReadDocs
    /\ InitGraphs
    /\ subschema = NewSubschema
    /\ readers = NoReads
    /\ called = NoCall

\* One parse, then readers that read the graph side by side.
NextRead ==
    \/ /\ \/ (parses[1] = 0 /\ StartParse(1))
          \/ ParserStep
       /\ UNCHANGED <<subschema, readers, called>>
    \/ \E r \in Readers : ReadCall(r)
    \/ \E r \in Readers : ReadVisit(r)
    \/ \E r \in Readers : ReadIterate(r)
    \/ \E r \in Readers : ReadReturn(r)

SpecRead == InitRead /\ [][NextRead]_vars

\* Two nodes a caller holds: node 1 with any kind of value (node 2 as its
\* child or target where it has one), node 2 a scalar or empty.
InitSet ==
    /\ doc = DNull
    /\ heap \in {<<first, second>> :
                   first \in NodeScalars
                       \cup {ArrayValue(a) : a \in ArraysOf({2})}
                       \cup {ObjectValue(o) : o \in ObjectsOf({2})}
                       \cup {ReferenceValue(2)},
                   second \in {EmptyValue, BoolValue(FALSE),
                               StringValue(<<"s">>)}}
    /\ next = 3
    /\ root = [g \in Graphs |-> 0]
    /\ adapters = {1, 2}
    /\ resolvedNodes = NoNodes
    /\ stack = <<>>
    /\ status = "idle"
    /\ fault = "none"
    /\ target = 1
    /\ parses = [g \in Graphs |-> 0]
    /\ subschema = NewSubschema
    /\ readers = NoReads
    /\ called = NoCall

\* Setters called one after another on these nodes.
NextSet ==
    \/ CallSetArray
    \/ CallSetBool
    \/ CallSetDouble
    \/ CallSetInteger
    \/ CallSetObject
    \/ CallSetString
    \/ CallSetReference
    \/ CallReset

SpecSet == InitSet /\ [][NextSet]_vars

\* Documents parsed one after another into the same Graphs: some convert,
\* some fault at the root, some fault after nodes were built.
AgainDocs ==
    {DInt(1)}
    \cup {DObj(<<Member(KeyA, x)>>) : x \in RefObjects}
    \cup {DObj(<<Member(KeyB, DInt(1)), Member(KeyA, y)>>) :
            y \in RefObjects}

\* The caller turns to another document between two parse calls.
NextDocument ==
    /\ status \in {"done", "fault"}
    /\ parses[1] + parses[2] < MaxParses
    /\ doc' \in AgainDocs \ {doc}
    /\ UNCHANGED <<heap, next, root, adapters, resolvedNodes, stack, status,
                   fault, target, parses>>

InitAgain ==
    /\ doc \in AgainDocs
    /\ InitGraphs
    /\ subschema = NewSubschema
    /\ readers = NoReads
    /\ called = NoCall

\* Different documents parsed into Graphs that may hold an earlier result.
NextAgain ==
    /\ \/ \E g \in Graphs :
              /\ parses[1] + parses[2] < MaxParses
              /\ StartParse(g)
       \/ ParserStep
       \/ NextDocument
    /\ UNCHANGED <<subschema, readers, called>>

SpecAgain == InitAgain /\ [][NextAgain]_vars

----------------------------------------------------------------------------
(* Facts about a document, by direct traversal                             *)

\* Every position of a document.
RECURSIVE Positions(_)
Positions(d) ==
    IF d.k = "array"
    THEN {<<>>} \cup UNION {{<<i>> \o p : p \in Positions(d.v[i])} :
                            i \in 1..Len(d.v)}
    ELSE IF d.k = "object"
    THEN {<<>>} \cup UNION {{<<i>> \o p : p \in Positions(d.v[i][2])} :
                            i \in 1..Len(d.v)}
    ELSE {<<>>}

\* The node is an object with a member named $ref.
CarriesRef(node) == node.k = "object" /\ FindMember(node.v, RefKey, 1) # 0

HasRef(d) == \E p \in Positions(d) : CarriesRef(At(d, p))

\* No object of the document names two members alike.
UniqueNames(d) ==
    \A p \in Positions(d) :
        At(d, p).k = "object" =>
            \A i, j \in 1..Len(At(d, p).v) :
                At(d, p).v[i][1] = At(d, p).v[j][1] => i = j

\* The canonical path of a position: "/" and the member name or the decimal
\* index, for every step from the root.
RECURSIVE PathOf(_, _)
PathOf(d, pos) ==
    IF pos = <<>> THEN <<>>
    ELSE IF d.k = "object"
    THEN <<"/">> \o d.v[Head(pos)][1] \o PathOf(d.v[Head(pos)][2], Tail(pos))
    ELSE <<"/">> \o lexical_cast_string(Head(pos) - 1)
         \o PathOf(d.v[Head(pos)], Tail(pos))

Prefixes(pos) == {SubSeq(pos, 1, n) : n \in 0..(Len(pos) - 1)}

\* The canonical path of the position addresses nothing else: on the way
\* from the root no object has a second member of the name taken.
RECURSIVE Unambiguous(_, _)
Unambiguous(d, pos) ==
    IF pos = <<>> THEN TRUE
    ELSE IF d.k = "object"
    THEN /\ \A i \in 1..Len(d.v) :
                d.v[i][1] = d.v[Head(pos)][1] => i = Head(pos)
         /\ Unambiguous(d.v[Head(pos)][2], Tail(pos))
    ELSE Unambiguous(d.v[Head(pos)], Tail(pos))

\* Direct traversal from the root reaches the position and descends into
\* it: no ancestor is a JSON Reference object, and the position is the only
\* one at its canonical path.
Traversed(d, pos) ==
    /\ \A a \in Prefixes(pos) : ~CarriesRef(At(d, a))
    /\ Unambiguous(d, pos)

\* The node is {"$ref": <not a string>, ...}.
IsMalformedRef(node) ==
    CarriesRef(node) /\ node.v[FindMember(node.v, RefKey, 1)][2].k # "string"

\* The node is {"$ref": "<string>", ...}.
IsStringRef(node) ==
    CarriesRef(node) /\ node.v[FindMember(node.v, RefKey, 1)][2].k = "string"

\* Where the $ref at a position points, resolved against the document root.
RefTarget(d, pos) ==
    LET node == At(d, pos)
    IN  resolveJsonPointer(d, <<>>,
            getJsonReferencePointer(node.v[FindMember(node.v, RefKey, 1)][2].v))

\* The position holds exactly {"$ref": "#/Q"} and Q is a concrete value.
IsRefTo(d, pos) ==
    /\ IsStringRef(At(d, pos))
    /\ Len(At(d, pos).v) = 1
    /\ RefTarget(d, pos).ok
    /\ ~CarriesRef(At(d, RefTarget(d, pos).pos))

\* Every $ref of the document is of that form, and there is one.
ConcreteRefDoc(d) ==
    /\ HasRef(d)
    /\ \A p \in Positions(d) : CarriesRef(At(d, p)) => IsRefTo(d, p)

\* Where a chain of references starting at a position ends: "concrete",
\* "malformed", "broken" (a pointer addresses nothing) or "cycle".
RECURSIVE ChainEnd(_, _, _)
ChainEnd(d, pos, fuel) ==
    IF ~CarriesRef(At(d, pos)) THEN "concrete"
    ELSE IF IsMalformedRef(At(d, pos)) THEN "malformed"
    ELSE IF ~RefTarget(d, pos).ok THEN "broken"
    ELSE IF fuel = 0 THEN "cycle"
    ELSE ChainEnd(d, RefTarget(d, pos).pos, fuel - 1)

\* Every $ref of the document is a string that addresses a node, and some
\* chain of them, met by the traversal, never reaches a concrete value.
CyclicRefDoc(d) ==
    /\ \A p \in Positions(d) :
           CarriesRef(At(d, p)) => IsStringRef(At(d, p)) /\ RefTarget(d, p).ok
    /\ \E p \in Positions(d) :
           /\ Traversed(d, p)
           /\ ChainEnd(d, p, Cardinality(Positions(d))) = "cycle"

\* The node an adapter reaches from node n by the member names and indexes
\* that lead to the position in the document; 0 when there is none.
RECURSIVE AdapterAt(_, _, _, _)
AdapterAt(h, n, d, pos) ==
    IF pos = <<>> THEN n
    ELSE IF d.k = "object"
    THEN LET obj == JsonGraphValue_getObjectOptional(h, n)
             c == IF obj.st = "ok"
                  THEN JsonGraphObject_find(obj.v, d.v[Head(pos)][1])
                  ELSE 0
         IN  IF c = 0 THEN 0
             ELSE AdapterAt(h, c, d.v[Head(pos)][2], Tail(pos))
    ELSE LET arr == JsonGraphValue_getArrayOptional(h, n)
         IN  IF arr.st = "ok" /\ Head(pos) <= Len(arr.v)
             THEN AdapterAt(h, arr.v[Head(pos)], d.v[Head(pos)], Tail(pos))
             ELSE 0

\* The pointer of the string $ref a position holds.
RefPointer(d, pos) ==
    getJsonReferencePointer(
        At(d, pos).v[FindMember(At(d, pos).v, RefKey, 1)][2].v)

\* The position holds a $ref whose pointer is the canonical path of one of
\* the position's proper ancestors.
IsAncestorRef(d, pos) ==
    /\ IsStringRef(At(d, pos))
    /\ \E a \in Prefixes(pos) : RefPointer(d, pos) = PathOf(d, a)

\* That ancestor.
AncestorOf(d, pos) ==
    CHOOSE a \in Prefixes(pos) : RefPointer(d, pos) = PathOf(d, a)

\* Every $ref of the document points at an ancestor, and there is one.
AncestorRefDoc(d) ==
    /\ HasRef(d)
    /\ \A p \in Positions(d) : CarriesRef(At(d, p)) => IsAncestorRef(d, p)

\* The nodes reachable from a set of nodes through strong child handles.
RECURSIVE Owned(_, _, _)
Owned(h, frontier, seen) ==
    LET new == (frontier \cap DOMAIN h) \ seen
    IN  IF new = {} THEN seen
        ELSE Owned(h, UNION {Children(h[n]) : n \in new}, seen \cup new)

\* Graph g holds the result of a parse (not the root it was created with,
\* and not nothing).
Parsed(g) == root[g] \notin Graphs \cup {0}

\* Following Reference links from the node ends at a destroyed node.
RECURSIVE Dangles(_, _)
Dangles(h, n) ==
    /\ h[n].k = "Reference"
    /\ (h[n].v \notin DOMAIN h \/ Dangles(h, h[n].v))

----------------------------------------------------------------------------
(* Claims                                                                  *)

\* C1: GraphParser.parse terminates on every finite document.  In the
\* chase loop of parseNode the loop condition (jsonReference), the lookup
\* key (currentPath) and resolvedNodes are the same in every iteration after
\* the first, so a call terminates iff the loop never continues from a
\* document node it has already continued from: no parseNode call holds the
\* same node twice on its currentNode stack.
C1_ParseTerminates ==
    \A i \in 1..Len(stack) :
        stack[i].fn = "parseNode" =>
            \A j, k \in 1..Len(stack[i].currentNode) :
                j < k => stack[i].currentNode[j] # stack[i].currentNode[k]

\* C2: a document without any $ref parses successfully, and the adapter
\* view of the graph equals direct traversal of the document: same kinds,
\* same values, members and elements in the same order.  Stated here for the
\* documents whose objects name every member once, which the claim covers.
C2_PlainDocumentMirrored ==
    (~HasRef(doc) /\ UniqueNames(doc)) =>
        /\ status \notin {"unwinding", "fault"}
        /\ status = "done" =>
               View(heap, root[target], ViewDepth) = DocView(doc, ViewDepth)

\* C3: where the document holds {"$ref": "#/Q"} at P and Q is a concrete
\* value, parse succeeds and the adapter at P shows the kind and value the
\* adapter at Q shows, which are those of the document at Q; Q may be an
\* ancestor, an earlier sibling, or a member traversed after P.
C3_RefResolvesToTarget ==
    ConcreteRefDoc(doc) =>
        /\ status \notin {"unwinding", "fault"}
        /\ status = "done" =>
               \A p \in Positions(doc) :
                   (IsRefTo(doc, p) /\ Traversed(doc, p)) =>
                       LET q == RefTarget(doc, p).pos
                           np == AdapterAt(heap, root[target], doc, p)
                           nq == AdapterAt(heap, root[target], doc, q)
                       IN  /\ np # 0 /\ nq # 0
                           /\ View(heap, np, ViewDepth)
                                  = View(heap, nq, ViewDepth)
                           /\ View(heap, np, ViewDepth).k = At(doc, q).k

\* C5: when a chain of $ref members never reaches a concrete value, parse
\* fails with UnresolvedReferenceCycle and produces no graph.
C5_UnresolvedCycleReported ==
    CyclicRefDoc(doc) =>
        /\ status # "done"
        /\ root[target] = target
        /\ status \in {"unwinding", "fault"} =>
               fault = "UnresolvedReferenceCycle"

\* C6: whenever the parser has examined an object whose $ref is not a
\* string -- the node parseNode was called on, or a node the chase loop
\* reached and continues from -- parse is failing with MalformedReference.
C6_MalformedRefReported ==
    \A i \in 1..Len(stack) :
        (stack[i].fn = "parseNode" /\ stack[i].pc # "entry") =>
            \A j \in 1..Len(stack[i].currentNode) :
                IsMalformedRef(At(doc, stack[i].currentNode[j])) =>
                    status = "unwinding" /\ fault = "MalformedReference"

\* C4: a $ref at P that points at an ancestor path A, whose node is still
\* being populated, is supported: the chase finds the ancestor's placeholder
\* in resolvedNodes, the node stored at P is a Reference to the very node
\* created for A, the adapter at P sees what the adapter at A sees, and a
\* document whose references all point at ancestors parses successfully.
C4_AncestorCycleSupported ==
    /\ \A i \in 1..Len(stack) :
           (/\ stack[i].fn = "parseNode"
            /\ stack[i].pc = "chase"
            /\ IsAncestorRef(doc, stack[i].startNode)) =>
               LET ptr == RefPointer(doc, stack[i].startNode)
                   a == AncestorOf(doc, stack[i].startNode)
               IN  /\ ptr \in DOMAIN resolvedNodes
                   /\ \E j \in 1..(i - 1) :
                          /\ stack[j].fn = "parseNode"
                          /\ stack[j].startNode = a
                          /\ stack[j].newGraphNode = resolvedNodes[ptr]
                          /\ GraphNode_isEmpty(heap, resolvedNodes[ptr])
    /\ status = "done" =>
           \A p \in Positions(doc) :
               (IsAncestorRef(doc, p) /\ Traversed(doc, p)) =>
                   LET a == AncestorOf(doc, p)
                       np == AdapterAt(heap, root[target], doc, p)
                       na == AdapterAt(heap, root[target], doc, a)
                   IN  /\ np # 0 /\ na # 0
                       /\ heap[np] = ReferenceValue(na)
                       /\ View(heap, np, ViewDepth) = View(heap, na, ViewDepth)
                       /\ View(heap, np, ViewDepth).k = At(doc, a).k
    /\ AncestorRefDoc(doc) => status \notin {"unwinding", "fault"}

\* C4 witness: a parse has finished on a document that holds, two levels
\* down, a $ref to an ancestor other than the root.
C4_Witness ==
    /\ status = "done"
    /\ \E p \in Positions(doc) :
           /\ Len(p) >= 2
           /\ IsAncestorRef(doc, p)
           /\ Traversed(doc, p)
           /\ AncestorOf(doc, p) # <<>>

\* C9: at every point of a parse and in every graph it builds, strong
\* ownership is acyclic: no node is reachable from itself through Array and
\* Object child handles.
C9_OwnershipAcyclic ==
    \A n \in DOMAIN heap : n \notin Owned(heap, Children(heap[n]), {})

\* C9 witness: a finished graph in which following child handles and then
\* one Reference link leads from a node back to itself.
C9_Witness ==
    /\ status = "done"
    /\ \E n \in DOMAIN heap :
           \E r \in Owned(heap, Children(heap[n]), {}) :
               heap[r] = ReferenceValue(n)

\* C7: once the last strong owner of a node is gone while a Reference still
\* targets it, every kind query, value extraction and size query through
\* that Reference, directly or through further References, fails with
\* DanglingReference: none returns a value or false.
C7_DanglingReferenceFails ==
    \A n \in DOMAIN heap :
        Dangles(heap, n) =>
            /\ \A kind \in ValueKinds :
                   /\ Throws(resolvesTo(heap, n, kind), "DanglingReference")
                   /\ Throws(resolveTo(heap, n, kind), "DanglingReference")
            /\ sizeOfResolvedArray(heap, n).st = "throw"
            /\ sizeOfResolvedObject(heap, n).st = "throw"

\* C7 witness: a Reference to a live Reference whose own target was
\* destroyed when its last handle was dropped.
C7_Witness ==
    \E n \in DOMAIN heap :
        /\ heap[n].k = "Reference"
        /\ heap[n].v \in DOMAIN heap
        /\ heap[heap[n].v].k = "Reference"
        /\ heap[heap[n].v].v \notin DOMAIN heap

\* C8: two parses of the same document give graphs that look the same
\* through the adapter and share no node; the map of one parse never holds
\* a node of a graph built before; and whatever happens to one Graph, no
\* Reference reachable from the other's root dangles.
C8_IndependentGraphs ==
    /\ (Parsed(1) /\ Parsed(2)) =>
           /\ View(heap, root[1], ViewDepth) = View(heap, root[2], ViewDepth)
           /\ Span(heap, {root[1]}, {}) \cap Span(heap, {root[2]}, {}) = {}
    /\ \A g \in Graphs :
           Parsed(g) =>
               /\ Span(heap, {root[g]}, {}) \subseteq DOMAIN heap
               /\ \A p \in DOMAIN resolvedNodes :
                      resolvedNodes[p] \notin Span(heap, {root[g]}, {})

\* C8 witness: the document, which holds a reference, was parsed into both
\* Graphs; one of them was then destroyed and the other still holds its
\* Reference node.
C8_Witness ==
    /\ parses[1] >= 1 /\ root[1] = 0
    /\ Parsed(2)
    /\ \E n \in Span(heap, {root[2]}, {}) : heap[n].k = "Reference"

\* C10: an adapter on an Array node of n children reports an array only:
\* getArray succeeds, its size is n, iteration yields the n children in the
\* order they were appended (each with the kind and value of the element
\* it was built from), and extraction as bool, double, object or string
\* fails.
C10_ArrayAdapter ==
    status = "done" =>
        \A p \in Positions(doc) :
            (At(doc, p).k = "array" /\ Traversed(doc, p)) =>
                LET n == AdapterAt(heap, root[target], doc, p)
                    a == JsonGraphValue_getArrayOptional(heap, n)
                    elems == JsonGraphArray_iterate(a.v)
                IN  /\ n # 0
                    /\ heap[n].k = "Array"
                    /\ a.st = "ok"
                    /\ JsonGraphArray_size(a.v) = Len(At(doc, p).v)
                    /\ Len(elems) = Len(At(doc, p).v)
                    /\ \A i \in 1..Len(elems) :
                           LET e == At(doc, p).v[i]
                           IN  ~CarriesRef(e) =>
                                   IF e.k \in {"array", "object"}
                                   THEN View(heap, elems[i], ViewDepth).k = e.k
                                   ELSE View(heap, elems[i], ViewDepth) = e
                    /\ JsonGraphValue_getBool(heap, n) = None
                    /\ JsonGraphValue_getDouble(heap, n) = None
                    /\ JsonGraphValue_getObjectOptional(heap, n) = None
                    /\ JsonGraphValue_getString(heap, n) = None

\* C10 witness: a finished parse of an array of at least three strings.
C10_Witness ==
    /\ status = "done"
    /\ doc.k = "array"
    /\ Len(doc.v) >= 3
    /\ \A i \in 1..Len(doc.v) : doc.v[i].k = "string"

\* C11: parse of a document whose root is an object without members, into
\* a freshly constructed Graph, raises an exception: it never returns
\* normally.
C11_EmptyObjectRaises ==
    (doc = DObj(<<>>) /\ parses[target] = 1) => status # "done"

\* C12: Subschema::apply invokes the callback on every constraint, once
\* each and in insertion order, also after an invocation returned false,
\* and returns true exactly when every invocation returned true.
C12_ApplyVisitsAll ==
    subschema.pc = "returned" =>
        /\ subschema.calls = subschema.constraints
        /\ subschema.result
               = (\A i \in 1..Len(subschema.answers) : subschema.answers[i])

C14_ConcurrentReadsSafe ==
    /\ [][status = "done" => heap' = heap]_vars
    /\ [](\A r \in Readers :
             readers[r].pc = "done" =>
                 readers[r].result
                     = ReadAlone(heap, readers[r].start, readers[r].op,
                                 readers[r].kind))

\* C14 witness: one reader has followed a Reference and is in the middle of
\* iterating the array behind it while the other has a result in hand.
C14_Witness ==
    /\ readers[1].pc = "iter" /\ readers[1].idx = 1
    /\ heap[readers[1].start].k = "Reference"
    /\ readers[2].pc = "done"

\* C15: every $ref pointer met in a chain is resolved against the document
\* root: a node the chase loop of parseNode continues from is the node the
\* pointer addresses from the root, and the loop fails to resolve a pointer
\* only where it addresses nothing from the root.
C15_PointersResolvedAgainstRoot ==
    \A i \in 1..Len(stack) :
        (stack[i].fn = "parseNode" /\ stack[i].pc = "chase") =>
            LET fromRoot == resolveJsonPointer(doc, <<>>,
                                getJsonReferencePointer(stack[i].jsonReference))
            IN  /\ \A j \in 2..Len(stack[i].currentNode) :
                       /\ fromRoot.ok
                       /\ stack[i].currentNode[j] = fromRoot.pos
                /\ (i = Len(stack) /\ fault = "PointerResolution")
                       => ~fromRoot.ok

\* The paths of the reference chain that starts at a position: the
\* position's own canonical path and every pointer met up to its end.
RECURSIVE ChainPaths(_, _, _)
ChainPaths(d, pos, fuel) ==
    IF fuel = 0 \/ ~IsStringRef(At(d, pos)) THEN {PathOf(d, pos)}
    ELSE {PathOf(d, pos), RefPointer(d, pos)}
         \cup (IF RefTarget(d, pos).ok
               THEN ChainPaths(d, RefTarget(d, pos).pos, fuel - 1)
               ELSE {})

\* C16: once parseNode has returned for a path P whose node starts a
\* reference chain P -> P1 -> ... -> Pk that ends at a concrete node,
\* resolvedNodes holds one and the same node under P, under every P1..Pk-1
\* and under Pk.  (The members and elements a parseNodeInto call has gone
\* past are the paths parseNode has returned for.)
C16_ChainPathsShareNode ==
    status = "parsing" =>
        \A i \in 1..Len(stack) :
            stack[i].fn = "parseNodeInto" =>
                \A j \in 1..stack[i].currentIndex :
                    LET c == Append(stack[i].currentNode, j)
                        n == Cardinality(Positions(doc))
                    IN  (CarriesRef(At(doc, c))
                         /\ ChainEnd(doc, c, n) = "concrete") =>
                            \A q \in ChainPaths(doc, c, n) :
                                /\ q \in DOMAIN resolvedNodes
                                /\ PathOf(doc, c) \in DOMAIN resolvedNodes
                                /\ resolvedNodes[q]
                                       = resolvedNodes[PathOf(doc, c)]

\* The node a chain of live References ends at.
RECURSIVE ChainTarget(_, _)
ChainTarget(h, n) ==
    IF h[n].k = "Reference" /\ h[n].v \in DOMAIN h
    THEN ChainTarget(h, h[n].v)
    ELSE n

\* C17: an adapter over a Reference node whose chain ends at a concrete
\* node T answers every kind predicate and every value extractor as an
\* adapter placed on T does; isNull is true where T is the empty node.
C17_ReferenceTransparent ==
    \A n \in DOMAIN heap :
        (heap[n].k = "Reference" /\ ~Dangles(heap, n)) =>
            LET t == ChainTarget(heap, n)
            IN  /\ JsonGraphValue_isArray(heap, n) = JsonGraphValue_isArray(heap, t)
                /\ JsonGraphValue_isObject(heap, n) = JsonGraphValue_isObject(heap, t)
                /\ JsonGraphValue_isBool(heap, n) = JsonGraphValue_isBool(heap, t)
                /\ JsonGraphValue_isDouble(heap, n) = JsonGraphValue_isDouble(heap, t)
                /\ JsonGraphValue_isInteger(heap, n) = JsonGraphValue_isInteger(heap, t)
                /\ JsonGraphValue_isNumber(heap, n) = JsonGraphValue_isNumber(heap, t)
                /\ JsonGraphValue_isString(heap, n) = JsonGraphValue_isString(heap, t)
                /\ JsonGraphValue_isNull(heap, n) = JsonGraphValue_isNull(heap, t)
                /\ JsonGraphValue_getArrayOptional(heap, n)
                       = JsonGraphValue_getArrayOptional(heap, t)
                /\ JsonGraphValue_getObjectOptional(heap, n)
                       = JsonGraphValue_getObjectOptional(heap, t)
                /\ JsonGraphValue_getBool(heap, n) = JsonGraphValue_getBool(heap, t)
                /\ JsonGraphValue_getDouble(heap, n) = JsonGraphValue_getDouble(heap, t)
                /\ JsonGraphValue_getInteger(heap, n) = JsonGraphValue_getInteger(heap, t)
                /\ JsonGraphValue_getString(heap, n) = JsonGraphValue_getString(heap, t)

\* C18: for a node that is, or resolves through References to, an Array
\* (an Object) of n children, n >= 0, sizeOfResolvedArray
\* (sizeOfResolvedObject) reports success and stores n in its output
\* argument; for a node that is empty or resolves to another kind it
\* reports failure.
C18_SizeOfResolved ==
    \A n \in DOMAIN heap :
        ~Dangles(heap, n) =>
            \A kind \in {"Array", "Object"} :
                LET t == ChainTarget(heap, n)
                    size == sizeOfResolved(heap, n, kind)
                IN  /\ size.st = "ok"
                    /\ IF heap[t].k = kind
                       THEN size.ret /\ size.result = Len(heap[t].v)
                       ELSE ~size.ret

\* The kind a setter names.
KindSetBy(op) ==
    CASE op = "setArray" -> "Array"
      [] op = "setBool" -> "Bool"
      [] op = "setDouble" -> "Double"
      [] op = "setInteger" -> "Integer"
      [] op = "setObject" -> "Object"
      [] op = "setString" -> "String"
      [] op = "setReference" -> "Reference"
      [] OTHER -> "Empty"

\* C19: after a setter was called on a node, whatever the node held, the
\* node has the one kind the setter names, with the value passed in; after
\* setReference(r) isReference is true and kind queries follow r to its
\* target; after reset the node is empty.
C19_SetterSetsKindAndValue ==
    called.op # "none" =>
        /\ heap[called.node].k = KindSetBy(called.op)
        /\ called.op # "reset" => heap[called.node].v = called.arg
        /\ called.op = "reset" => GraphNode_isEmpty(heap, called.node)
        /\ called.op = "setReference" =>
               /\ GraphNode_isReference(heap, called.node)
               /\ \A kind \in ValueKinds :
                      resolvesTo(heap, called.node, kind)
                          = resolvesTo(heap, called.arg, kind)

\* The number of Reference links followed from a node before a node that
\* is no Reference is reached; -1 when `fuel` links do not get there.
RECURSIVE RefSteps(_, _, _)
RefSteps(h, n, fuel) ==
    IF n \notin DOMAIN h THEN -1
    ELSE IF h[n].k # "Reference" THEN 0
    ELSE IF fuel = 0 THEN -1
    ELSE LET rest == RefSteps(h, h[n].v, fuel - 1)
         IN  IF rest = -1 THEN -1 ELSE rest + 1

\* The distinct canonical paths of a document.
CanonicalPaths(d) == {PathOf(d, p) : p \in Positions(d)}

\* C20: in the graph of a successful parse, following Reference links from
\* any node reaches a node that is no Reference, within as many steps as
\* the document has distinct canonical paths: no cycle is made of
\* Reference nodes only, so resolution from every node terminates.
C20_ReferenceChainsEnd ==
    status = "done" =>
        \A n \in Span(heap, {root[target]}, {}) :
            LET steps == RefSteps(heap, n, Cardinality(DOMAIN heap))
            IN  /\ steps >= 0
                /\ steps <= Cardinality(CanonicalPaths(doc))

\* C20 witness: a finished parse whose graph holds a Reference node inside
\* an object, one link away from a concrete node.
C20_Witness ==
    /\ status = "done"
    /\ heap[root[target]].k = "Object"
    /\ \E n \in Span(heap, {root[target]}, {}) :
           RefSteps(heap, n, Cardinality(DOMAIN heap)) = 1

\* The nodes of a Graph: what is reachable from its root, by child handles
\* and Reference links.
NodesOf(h, r, g) == Span(h, {r[g]}, {})

\* C21: a parse call that raises a fault leaves the Graph it was given as
\* it was before the call.  Every step of a parse call other than the one
\* that installs the new root (the call itself, each step of the
\* conversion, the raise and the unwinding) keeps the root handle of the
\* Graph, the set of nodes reachable from it, and the value and the
\* lifetime of each of them; a call that ends in a fault consists of such
\* steps only, so no node built by it is reachable from the Graph.
C21_FaultLeavesGraph ==
    [][((status' = "parsing" \/ status \in {"parsing", "unwinding"})
          /\ status' # "done") =>
          /\ root'[target'] = root[target']
          /\ NodesOf(heap', root', target') = NodesOf(heap, root, target')
          /\ \A n \in NodesOf(heap, root, target') :
                 /\ (n \in DOMAIN heap') = (n \in DOMAIN heap)
                 /\ n \in DOMAIN heap => heap'[n] = heap[n]]_vars

\* C21 witness: a parse into a Graph that holds the result of an earlier
\* parse, an object with a Reference in it, has raised a fault after it had
\* built nodes of its own, which are still alive and are not nodes of the
\* Graph.
C21_Witness ==
    /\ status = "unwinding"
    /\ parses[target] >= 2
    /\ Parsed(target)
    /\ heap[root[target]].k = "Object"
    /\ \E n \in NodesOf(heap, root, target) : heap[n].k = "Reference"
    /\ \E i \in 1..Len(stack) :
           /\ stack[i].fn = "parseNode"
           /\ stack[i].newGraphNode \in DOMAIN heap
           /\ stack[i].newGraphNode \notin NodesOf(heap, root, target)

====
